---- MODULE Spec2Model ----
(***************************************************************************)
(* SSD1327 I2C driver (src/src/lib.rs): the controller object, its command *)
(* encoding table, the raw data write, the initialisation sequence, the    *)
(* packed 4-bit framebuffer with the DrawTarget pixel writer, and flush.   *)
(* The I2C peripheral is an external collaborator: every transaction a     *)
(* call makes either succeeds or fails with an error kind of the           *)
(* transport's choosing.                                                   *)
(***************************************************************************)
EXTENDS Integers, Sequences, FiniteSets

VARIABLES
    slave_address,  \* SSD1327I2C.slave_address (u8)
    width,          \* SSD1327I2C.width: the stored half-width (u8)
    height,         \* SSD1327I2C.height (u8)
    framebuffer,    \* SSD1327I2C.framebuffer: [u8; 128 * 64], indexed from 0
    ctor,           \* history: the constructor call that built the controller
    lastOp,         \* history: the last call made on the controller, with its arguments
    bus,            \* history: the bus transactions the last call performed, in order
    reads,          \* history: the indices of the caller's slice the last send_data read
    result          \* what the last call returned ("Unit", "Ok", an error kind, or "Panic")

vars == <<slave_address, width, height, framebuffer, ctor, lastOp, bus, reads, result>>

-----------------------------------------------------------------------------
(* Bounds of the model *)

\* Longest pixel sequence handed to one draw_iter call.
MaxPixels == 2

\* Most transactions the transport fails within one call.
MaxFaults == 2

-----------------------------------------------------------------------------
(* Program constants *)

FbLen == 8192            \* 128 * 64
DefaultAddress == 60     \* 0x3C
DefaultSize == 127       \* 0x7F
DataMarker == 64         \* 0x40
PanelMax == 127          \* last in-bounds coordinate
RowBytes == 64           \* framebuffer bytes per pixel row
ChunkLen == 8            \* framebuffer bytes per data write

\* The transport's error kinds (embedded_hal::i2c::ErrorKind, two of them).
Errors == {"NoAcknowledge", "ArbitrationLoss"}

-----------------------------------------------------------------------------
(* u8 bit operations *)

RECURSIVE BitAnd(_, _)
BitAnd(a, b) ==
    IF a = 0 \/ b = 0 THEN 0
    ELSE (IF a % 2 = 1 /\ b % 2 = 1 THEN 1 ELSE 0) + 2 * BitAnd(a \div 2, b \div 2)

RECURSIVE BitOr(_, _)
BitOr(a, b) ==
    IF a = 0 THEN b
    ELSE IF b = 0 THEN a
    ELSE (IF a % 2 = 1 \/ b % 2 = 1 THEN 1 ELSE 0) + 2 * BitOr(a \div 2, b \div 2)

\* u8 << n
Shl8(a, n) == IF n = 0 THEN a % 256 ELSE (a * (2 ^ n)) % 256

-----------------------------------------------------------------------------
(* Commands and their wire encoding *)

Cmd0(t)       == [tag |-> t, a |-> 0, b |-> 0]
Cmd1(t, v)    == [tag |-> t, a |-> v, b |-> 0]
Cmd2(t, s, e) == [tag |-> t, a |-> s, b |-> e]

\* The variants of enum Commands by the number of u8 fields they carry.
Tags2 == {"ColumnAddress", "RowAddress"}
Tags1 == {"ContrastControl", "Remap", "DisplayStartLine", "DisplayOffset", "MUXRatio",
          "FunctionSelectionA", "PhaseLength", "FrontClockDividerOscillatorFrequency",
          "GPIO", "SecondPreChargePeriod", "PreChargeVoltage", "VCOMH",
          "FunctionSelectionB", "SetCommandLock"}
Tags0 == {"DisplayModeNormal", "DisplayModeAllON", "DisplayModeAllOFF",
          "DisplayModeInverseDisplay", "SelectExternalVDD", "SelectInternalVDD",
          "DisplayON", "DisplayOFF", "LinearLUT", "CommandUnlock", "CommandLock"}

\* The match of send_cmd: the 4-byte buffer and the number of bytes of it sent.
Encode(cmd) ==
    LET t == cmd.tag IN
    CASE t = "ColumnAddress"      -> [data |-> <<0, 21, cmd.a, cmd.b>>, len |-> 4]
      [] t = "RowAddress"         -> [data |-> <<0, 117, cmd.a, cmd.b>>, len |-> 4]
      [] t = "ContrastControl"    -> [data |-> <<0, 129, cmd.a, 0>>, len |-> 3]
      [] t = "Remap"              -> [data |-> <<0, 160, cmd.a, 0>>, len |-> 3]
      [] t = "DisplayStartLine"   -> [data |-> <<0, 161, cmd.a, 0>>, len |-> 3]
      [] t = "DisplayOffset"      -> [data |-> <<0, 162, cmd.a, 0>>, len |-> 3]
      [] t = "DisplayModeNormal"  -> [data |-> <<0, 164, 0, 0>>, len |-> 2]
      [] t = "DisplayModeAllON"   -> [data |-> <<0, 165, 0, 0>>, len |-> 2]
      [] t = "DisplayModeAllOFF"  -> [data |-> <<0, 166, 0, 0>>, len |-> 2]
      [] t = "DisplayModeInverseDisplay" -> [data |-> <<0, 167, 0, 0>>, len |-> 2]
      [] t = "MUXRatio"           -> [data |-> <<0, 168, cmd.a, 0>>, len |-> 3]
      [] t = "FunctionSelectionA" -> [data |-> <<0, 171, cmd.a, 0>>, len |-> 3]
      [] t = "SelectExternalVDD"  -> [data |-> <<0, 171, 0, 0>>, len |-> 3]
      [] t = "SelectInternalVDD"  -> [data |-> <<0, 171, 1, 0>>, len |-> 3]
      [] t = "DisplayON"          -> [data |-> <<0, 175, 0, 0>>, len |-> 2]
      [] t = "DisplayOFF"         -> [data |-> <<0, 174, 0, 0>>, len |-> 2]
      [] t = "PhaseLength"        -> [data |-> <<0, 177, cmd.a, 0>>, len |-> 3]
      [] t = "FrontClockDividerOscillatorFrequency"
                                  -> [data |-> <<0, 179, cmd.a, 0>>, len |-> 3]
      [] t = "GPIO"               -> [data |-> <<0, 181, cmd.a, 0>>, len |-> 3]
      [] t = "SecondPreChargePeriod" -> [data |-> <<0, 182, cmd.a, 0>>, len |-> 3]
      [] t = "LinearLUT"          -> [data |-> <<0, 185, 0, 0>>, len |-> 2]
      [] t = "PreChargeVoltage"   -> [data |-> <<0, 188, cmd.a, 0>>, len |-> 3]
      [] t = "VCOMH"              -> [data |-> <<0, 190, cmd.a, 0>>, len |-> 3]
      [] t = "FunctionSelectionB" -> [data |-> <<0, 213, cmd.a, 0>>, len |-> 3]
      [] t = "SetCommandLock"     -> [data |-> <<0, 253, cmd.a, 0>>, len |-> 3]
      [] t = "CommandUnlock"      -> [data |-> <<0, 253, 0, 18>>, len |-> 4]
      [] t = "CommandLock"        -> [data |-> <<0, 253, 0, 22>>, len |-> 4]

-----------------------------------------------------------------------------
(* The transport and the bus writer *)

\* Transactions of a call of n transactions at which a failure is injected.
FaultPoints(n) == {1, 3, n} \cap (1..n)

\* What the transport does during one call of n transactions: a map from the
\* failing transactions (numbered within the call) to the error each returns.
FaultPlans(n) ==
    UNION {[S -> Errors] : S \in {T \in SUBSET FaultPoints(n) : Cardinality(T) <= MaxFaults}}

\* I2c::write's result for the k-th transaction of the call.
Outcome(plan, k) == IF k \in DOMAIN plan THEN plan[k] ELSE "Ok"

\* Faulty variant: the transport's error is swallowed.
send_bytes_swallow(plan, k, addr, bytes) ==
    [addr |-> addr, bytes |-> bytes, res |-> "Ok"]

\* send_bytes as the k-th transaction of a call: one write to the stored address.
send_bytes(plan, k, addr, bytes) ==
    [addr |-> addr, bytes |-> bytes, res |-> Outcome(plan, k)]

\* Faulty variant: the whole 4-byte buffer is sent, not data[0..len].
send_cmd_whole_buffer(plan, k, addr, cmd) ==
    send_bytes(plan, k, addr, Encode(cmd).data)

\* send_cmd as the k-th transaction of a call.
send_cmd(plan, k, addr, cmd) ==
    send_bytes(plan, k, addr, SubSeq(Encode(cmd).data, 1, Encode(cmd).len))

\* send_data: the 9-byte buffer is built from data[0] .. data[7], each index
\* bounds-checked in turn (a failed check panics before anything is sent),
\* then written in one transaction.
DataReads(data) == {i \in 0..(ChunkLen - 1) : \A j \in 0..i : j < Len(data)}

\* Faulty variant: the command marker 0x00 in place of the data marker.
send_data_payload_cmd_marker(data) == <<0>> \o [i \in 1..ChunkLen |-> data[i]]

send_data_payload(data) == <<DataMarker>> \o [i \in 1..ChunkLen |-> data[i]]

send_data(plan, addr, data) ==
    IF \E i \in 0..(ChunkLen - 1) : i >= Len(data)
    THEN [panic |-> TRUE, txs |-> <<>>, reads |-> DataReads(data), res |-> "Panic"]
    ELSE LET tx == send_bytes(plan, 1, addr, SubSeq(send_data_payload(data), 1, 9))
         IN  [panic |-> FALSE, txs |-> <<tx>>, reads |-> DataReads(data), res |-> tx.res]

-----------------------------------------------------------------------------
(* Constructors *)

with_addr_wh(a, w, h) ==
    [slave_address |-> a, width |-> w \div 2, height |-> h,
     framebuffer |-> [i \in 0..(FbLen - 1) |-> 0]]

with_addr(a) == with_addr_wh(a, DefaultSize, DefaultSize)

with_wh(w, h) == with_addr_wh(DefaultAddress, w, h)

new == with_addr_wh(DefaultAddress, DefaultSize, DefaultSize)

-----------------------------------------------------------------------------
(* init *)

InitCommands(w, h) ==
    << Cmd0("CommandUnlock"),
       Cmd0("DisplayOFF"),
       Cmd2("ColumnAddress", 0, w),
       Cmd2("RowAddress", 0, h),
       Cmd1("ContrastControl", 127),
       Cmd1("Remap", 81),
       Cmd1("DisplayStartLine", 0),
       Cmd1("DisplayOffset", 0),
       Cmd0("DisplayModeNormal"),
       Cmd1("MUXRatio", 126),
       Cmd1("PhaseLength", 81),
       Cmd0("LinearLUT"),
       Cmd1("FrontClockDividerOscillatorFrequency", 0),
       Cmd0("SelectInternalVDD"),
       Cmd1("SecondPreChargePeriod", 4),
       Cmd1("VCOMH", 5),
       Cmd1("PreChargeVoltage", 5),
       Cmd1("FunctionSelectionB", 96),
       Cmd0("DisplayON") >>

\* Faulty variant: the sequence stops at the first step that fails.
init_abort(plan, addr, w, h) ==
    [txs |-> [k \in 1..(IF DOMAIN plan = {} THEN 19
                        ELSE CHOOSE f \in DOMAIN plan : \A g \in DOMAIN plan : f <= g)
                 |-> send_cmd(plan, k, addr, InitCommands(w, h)[k])],
     res |-> "Unit"]

\* Every step is send_cmd(..).ok(): the result is dropped and the next step runs.
init(plan, addr, w, h) ==
    LET cmds == InitCommands(w, h)
    IN  [txs |-> [k \in 1..Len(cmds) |-> send_cmd(plan, k, addr, cmds[k])],
         res |-> "Unit"]

-----------------------------------------------------------------------------
(* flush *)

\* Faulty variant: for y in 0..127
FlushRowsExclusive == [i \in 1..127 |-> i - 1]

\* for y in 0..=127
FlushRows == [i \in 1..128 |-> i - 1]

\* for x in (0..=63).step_by(8)
FlushCols == [i \in 1..8 |-> (i - 1) * 8]

\* Faulty variant: a row stride of 63.
FlushIndexStride(k) ==
    FlushCols[((k - 1) % Len(FlushCols)) + 1]
        + FlushRows[((k - 1) \div Len(FlushCols)) + 1] * 63

\* The argument of the k-th send_buffer_data call of the nested loops: x + y * 64.
FlushIndex(k) ==
    FlushCols[((k - 1) % Len(FlushCols)) + 1]
        + FlushRows[((k - 1) \div Len(FlushCols)) + 1] * 64

FlushIndices == [k \in 1..(Len(FlushRows) * Len(FlushCols)) |-> FlushIndex(k)]

\* send_buffer_data as the k-th transaction of a call: framebuffer[index .. index + 7]
\* behind the data marker; an index outside the array panics before the write.
send_buffer_data(plan, k, addr, fb, index) ==
    IF index + 7 >= FbLen
    THEN [res |-> "Panic", tx |-> [addr |-> addr, bytes |-> <<>>, res |-> "Panic"]]
    ELSE LET tx == send_bytes(plan, k, addr,
                              << DataMarker, fb[index], fb[index + 1], fb[index + 2],
                                 fb[index + 3], fb[index + 4], fb[index + 5],
                                 fb[index + 6], fb[index + 7] >>)
         IN  [res |-> tx.res, tx |-> tx]

\* Faulty variant: the first error is kept.
flush_match_first(res, r) == IF res = "Ok" THEN r ELSE res

\* The match on each chunk's result: Ok(_) => (), Err(e) => res = Err(e).
flush_match(res, r) == IF r = "Ok" THEN res ELSE r

\* The value of res after the loop iterations lo..hi, entered with value res:
\* the iterations lo..mid run first, then mid+1..hi from what they left; a panic
\* in an iteration ends the loop.
RECURSIVE flush_loop(_, _, _, _)
flush_rest(chunks, lo, hi, res) ==
    IF res = "Panic" THEN "Panic" ELSE flush_loop(chunks, lo, hi, res)

flush_loop(chunks, lo, hi, res) ==
    IF lo > hi THEN res
    ELSE IF lo = hi
         THEN IF chunks[lo].res = "Panic" THEN "Panic" ELSE flush_match(res, chunks[lo].res)
         ELSE flush_rest(chunks, ((lo + hi) \div 2) + 1, hi,
                         flush_loop(chunks, lo, (lo + hi) \div 2, res))

\* The number of loop iterations that complete: all n of them, or those before
\* the first one that panics.
flush_completed(bad, n) ==
    IF bad = {} THEN n ELSE (CHOOSE k \in bad : \A j \in bad : k <= j) - 1

\* What flush leaves behind, given its two addressing transactions and the
\* outcome of each send_buffer_data call in loop order: the transactions up to
\* a panic, and the final value of res.
flush_run(cmds, chunks) ==
    [txs |-> cmds \o [k \in 1..flush_completed({j \in 1..Len(chunks) : chunks[j].res = "Panic"},
                                                 Len(chunks)) |-> chunks[k].tx],
     res |-> flush_loop(chunks, 1, Len(chunks), "Ok")]

flush(plan, addr, w, h, fb) ==
    flush_run(<< send_cmd(plan, 1, addr, Cmd2("ColumnAddress", 0, w)),
                 send_cmd(plan, 2, addr, Cmd2("RowAddress", 0, h)) >>,
              [k \in 1..Len(FlushIndices) |->
                  send_buffer_data(plan, 2 + k, addr, fb, FlushIndices[k])])

-----------------------------------------------------------------------------
(* DrawTarget::draw_iter *)

\* Faulty variant: x matched against 0..=128.
InBoundsInclusive(x, y) == x >= 0 /\ y >= 0 /\ x <= PanelMax + 1 /\ y <= PanelMax

\* coord.try_into() into (u32, u32) succeeds, and both match 0..=127.
InBounds(x, y) == x >= 0 /\ y >= 0 /\ x <= PanelMax /\ y <= PanelMax

\* Faulty variant: the pixel's nibble is not cleared before the OR.
write_pixel_no_clear(fb, x, y, luma) ==
    LET index == (x \div 2) + y * RowBytes
    IN  IF x % 2 = 0
        THEN [fb EXCEPT ![index] = BitOr(fb[index], Shl8(luma, 4))]
        ELSE [fb EXCEPT ![index] = BitOr(fb[index], luma)]

\* The body of the loop for one in-bounds pixel.
write_pixel(fb, x, y, luma) ==
    LET index == (x \div 2) + y * RowBytes
    IN  IF x % 2 = 0
        THEN [fb EXCEPT ![index] = BitOr(BitAnd(fb[index], 15), Shl8(luma, 4))]
        ELSE [fb EXCEPT ![index] = BitOr(BitAnd(fb[index], 240), luma)]

RECURSIVE draw_iter(_, _)
draw_iter(fb, pixels) ==
    IF pixels = <<>> THEN fb
    ELSE LET p == Head(pixels)
         IN  draw_iter(IF InBounds(p.x, p.y) THEN write_pixel(fb, p.x, p.y, p.luma) ELSE fb,
                       Tail(pixels))

-----------------------------------------------------------------------------
(* Inputs *)

ByteSamples == {127, 255}

CommandInputs ==
    {Cmd0(t) : t \in Tags0}
        \cup {Cmd1(t, v) : t \in Tags1, v \in ByteSamples}
        \cup {Cmd2(t, s, e) : t \in Tags2, s \in ByteSamples, e \in ByteSamples}

DataInputs ==
    { <<>>,
      <<1, 2, 3>>,
      <<1, 2, 3, 4, 5, 6, 7>>,
      <<1, 2, 3, 4, 5, 6, 7, 8>>,
      <<255, 0, 128, 64, 17, 200, 9, 254>>,
      <<10, 20, 30, 40, 50, 60, 70, 80, 90>> }

Px(x, y, l) == [x |-> x, y |-> y, luma |-> l]

PixelInputs ==
    { Px(0, 0, 15), Px(0, 0, 0), Px(1, 0, 9), Px(127, 127, 15),
      Px(128, 0, 15), Px(0, 128, 15), Px(-1, 0, 15), Px(0, -1, 15) }

PixelSeqs == UNION {[1..n -> PixelInputs] : n \in 0..MaxPixels}

NoPlan == [k \in {} |-> "Ok"]

NoOp == [name |-> "none", cmd |-> Cmd0("none"), data |-> <<>>, pixels |-> <<>>,
         plan |-> NoPlan]

-----------------------------------------------------------------------------
(* The state machine *)

Construct(name, a, w, h, c) ==
    /\ slave_address = c.slave_address
    /\ width = c.width
    /\ height = c.height
    /\ framebuffer = c.framebuffer
    /\ ctor = [name |-> name, addr |-> a, width |-> w, height |-> h]
    /\ lastOp = NoOp
    /\ bus = <<>>
    /\ reads = {}
    /\ result = "Unit"

Init ==
    \/ Construct("new", DefaultAddress, DefaultSize, DefaultSize, new)
    \/ Construct("with_addr", 61, DefaultSize, DefaultSize, with_addr(61))
    \/ Construct("with_wh", DefaultAddress, 64, 33, with_wh(64, 33))
    \/ Construct("with_addr_wh", 61, 255, 128, with_addr_wh(61, 255, 128))

\* A panic ends the program: nothing runs after it.
Alive == result # "Panic"

\* No call is in progress or waiting to be observed by the caller.
Idle == lastOp.name = "none"

CallSendCmd ==
    /\ Idle
    /\ \E cmd \in CommandInputs, plan \in FaultPlans(1) :
          \E tx \in {send_cmd(plan, 1, slave_address, cmd)} :
              /\ bus' = <<tx>>
              /\ result' = tx.res
              /\ lastOp' = [NoOp EXCEPT !.name = "send_cmd", !.cmd = cmd, !.plan = plan]
    /\ reads' = {}
    /\ UNCHANGED <<slave_address, width, height, framebuffer, ctor>>

CallSendData ==
    /\ Idle
    /\ \E data \in DataInputs, plan \in FaultPlans(1) :
          \E r \in {send_data(plan, slave_address, data)} :
              /\ bus' = r.txs
              /\ result' = r.res
              /\ reads' = r.reads
              /\ lastOp' = [NoOp EXCEPT !.name = "send_data", !.data = data, !.plan = plan]
    /\ UNCHANGED <<slave_address, width, height, framebuffer, ctor>>

CallInit ==
    /\ Idle
    /\ \E plan \in FaultPlans(19) :
          \E r \in {init(plan, slave_address, width, height)} :
              /\ bus' = r.txs
              /\ result' = r.res
              /\ lastOp' = [NoOp EXCEPT !.name = "init", !.plan = plan]
    /\ reads' = {}
    /\ UNCHANGED <<slave_address, width, height, framebuffer, ctor>>

CallFlush ==
    /\ Idle
    /\ \E plan \in FaultPlans(2 + Len(FlushIndices)) :
          \E r \in {flush(plan, slave_address, width, height, framebuffer)} :
              /\ bus' = r.txs
              /\ result' = r.res
              /\ lastOp' = [NoOp EXCEPT !.name = "flush", !.plan = plan]
    /\ reads' = {}
    /\ UNCHANGED <<slave_address, width, height, framebuffer, ctor>>

CallDrawIter ==
    /\ Idle
    /\ \E pixels \in PixelSeqs :
          /\ framebuffer' = draw_iter(framebuffer, pixels)
          /\ lastOp' = [NoOp EXCEPT !.name = "draw_iter", !.pixels = pixels]
    /\ bus' = <<>>
    /\ reads' = {}
    /\ result' = "Ok"
    /\ UNCHANGED <<slave_address, width, height, ctor>>

\* The caller has taken the call's result; the record of the call is dropped.
Return ==
    /\ ~Idle
    /\ Alive
    /\ lastOp' = NoOp
    /\ bus' = <<>>
    /\ reads' = {}
    /\ result' = "Unit"
    /\ UNCHANGED <<slave_address, width, height, framebuffer, ctor>>

Next ==
    \/ CallSendCmd
    \/ CallSendData
    \/ CallInit
    \/ CallFlush
    \/ CallDrawIter
    \/ Return

Spec == Init /\ [][Next]_vars

-----------------------------------------------------------------------------
(* Vocabulary of the properties *)

\* The data-write transactions of a flush: everything after the two addressing commands.
FlushData == SubSeq(bus, 3, Len(bus))

\* 128 rows of 8 chunks: the whole framebuffer in 8-byte chunks.
FrameChunks == 128 * 8

Failing(txs) == {k \in 1..Len(txs) : txs[k].res # "Ok"}

Last(S) == CHOOSE k \in S : \A j \in S : j <= k

AllZero(fb) == \A i \in 0..(FbLen - 1) : fb[i] = 0

\* The controller still holds what its constructor was given.
ConfigKept ==
    /\ slave_address = ctor.addr
    /\ width = ctor.width \div 2
    /\ height = ctor.height

\* The opcode each variant documents (the doc comments of enum Commands).
Opcode(t) ==
    CASE t = "ColumnAddress" -> 21      [] t = "RowAddress" -> 117
      [] t = "ContrastControl" -> 129   [] t = "Remap" -> 160
      [] t = "DisplayStartLine" -> 161  [] t = "DisplayOffset" -> 162
      [] t = "DisplayModeNormal" -> 164 [] t = "DisplayModeAllON" -> 165
      [] t = "DisplayModeAllOFF" -> 166 [] t = "DisplayModeInverseDisplay" -> 167
      [] t = "MUXRatio" -> 168          [] t = "FunctionSelectionA" -> 171
      [] t = "SelectExternalVDD" -> 171 [] t = "SelectInternalVDD" -> 171
      [] t = "DisplayON" -> 175         [] t = "DisplayOFF" -> 174
      [] t = "PhaseLength" -> 177
      [] t = "FrontClockDividerOscillatorFrequency" -> 179
      [] t = "GPIO" -> 181              [] t = "SecondPreChargePeriod" -> 182
      [] t = "LinearLUT" -> 185         [] t = "PreChargeVoltage" -> 188
      [] t = "VCOMH" -> 190             [] t = "FunctionSelectionB" -> 213
      [] t = "SetCommandLock" -> 253    [] t = "CommandUnlock" -> 253
      [] t = "CommandLock" -> 253

\* The argument bytes of a command: its own parameters verbatim, or the fixed
\* arguments of a parameterless variant.
Arguments(cmd) ==
    IF cmd.tag \in Tags2 THEN <<cmd.a, cmd.b>>
    ELSE IF cmd.tag \in Tags1 THEN <<cmd.a>>
    ELSE CASE cmd.tag = "SelectExternalVDD" -> <<0>>
           [] cmd.tag = "SelectInternalVDD" -> <<1>>
           [] cmd.tag = "CommandUnlock" -> <<0, 18>>
           [] cmd.tag = "CommandLock" -> <<0, 22>>
           [] OTHER -> <<>>

\* A pixel of the 128 x 128 panel.
OnPanel(p) == p.x \in 0..127 /\ p.y \in 0..127

\* fb with the nibble of pixel p set to its gray value: the high nibble of byte
\* x/2 + y*64 for an even x, the low nibble for an odd x.
Packed(fb, p) ==
    [fb EXCEPT ![(p.x \div 2) + p.y * 64] =
        IF p.x % 2 = 0 THEN p.luma * 16 + (fb[(p.x \div 2) + p.y * 64] % 16)
                       ELSE (fb[(p.x \div 2) + p.y * 64] \div 16) * 16 + p.luma]

RECURSIVE PackedAll(_, _)
PackedAll(fb, ps) == IF ps = <<>> THEN fb ELSE PackedAll(Packed(fb, Head(ps)), Tail(ps))

-----------------------------------------------------------------------------
(* C1 *)

-----------------------------------------------------------------------------
(* C2 *)

\* C2 as stated: a flush over an untouched framebuffer issues the two addressing
\* commands plus height x (width/8) data writes, for the configured width and
\* height, all data bytes zero.
C2_ConfiguredChunkCount ==
    (lastOp.name = "flush" /\ AllZero(framebuffer)) =>
        /\ Len(bus) = 2 + ctor.height * (ctor.width \div 8)
        /\ \A k \in 3..Len(bus) : \A i \in 2..Len(bus[k].bytes) : bus[k].bytes[i] = 0

\* C2 amended: a flush over an untouched framebuffer issues the two addressing
\* commands plus exactly 1024 data writes (the whole 8192-byte framebuffer in
\* 8-byte chunks) whatever width and height were configured, every data byte zero.
C2_FullFrameChunkCount ==
    (lastOp.name = "flush" /\ AllZero(framebuffer)) =>
        /\ Len(bus) = 2 + FrameChunks
        /\ bus[1].bytes[1] = 0 /\ bus[1].bytes[2] = 21
        /\ bus[2].bytes[1] = 0 /\ bus[2].bytes[2] = 117
        /\ \A k \in 3..Len(bus) :
              /\ bus[k].bytes[1] = 64
              /\ Len(bus[k].bytes) = 9
              /\ \A i \in 2..9 : bus[k].bytes[i] = 0

\* A controller built with a custom width and height has flushed its untouched
\* framebuffer in 1024 data writes.
C2_Witness ==
    /\ lastOp.name = "flush"
    /\ AllZero(framebuffer)
    /\ ctor.name = "with_wh"
    /\ ctor.height * (ctor.width \div 8) # FrameChunks
    /\ Len(bus) = 2 + FrameChunks

-----------------------------------------------------------------------------
(* C3 *)

InitOpcodes ==
    <<253, 174, 21, 117, 129, 160, 161, 162, 164, 168, 177, 185, 179, 171, 182, 190,
      188, 213, 175>>

\* C3: init issues its 19 commands in the same order, one transaction each,
\* whichever of them fail, and reports no error.
C3_InitSequence ==
    lastOp.name = "init" =>
        /\ Len(bus) = 19
        /\ \A k \in 1..19 :
              /\ bus[k].addr = slave_address
              /\ bus[k].bytes[1] = 0
              /\ bus[k].bytes[2] = InitOpcodes[k]
              /\ bus[k].res = Outcome(lastOp.plan, k)
        /\ bus[1].bytes = <<0, 253, 0, 18>>
        /\ bus[3].bytes = <<0, 21, 0, width>>
        /\ bus[4].bytes = <<0, 117, 0, height>>
        /\ bus[14].bytes = <<0, 171, 1>>
        /\ result = "Unit"

\* The first and the third step failed and all 19 were issued.
C3_Witness ==
    /\ lastOp.name = "init"
    /\ Len(bus) = 19
    /\ bus[1].res = "NoAcknowledge"
    /\ bus[3].res = "ArbitrationLoss"
    /\ bus[19].res = "Ok"
    /\ result = "Unit"

-----------------------------------------------------------------------------
(* C4 *)

\* C4: send_data with fewer than 8 bytes returns an invalid-argument error,
\* performs no bus transaction, reads nothing past the end of its input and
\* leaves the controller as it was.
C4_ShortInputRejected ==
    (lastOp.name = "send_data" /\ Len(lastOp.data) < 8) =>
        /\ result = "InvalidArgument"
        /\ bus = <<>>
        /\ \A i \in reads : i < Len(lastOp.data)
        /\ ConfigKept

-----------------------------------------------------------------------------
(* C5 *)

\* C5: send_data of 8 bytes d performs one transaction to the controller's
\* address carrying 0x40 followed by d, and returns the transport's result.
C5_SendDataPayload ==
    (lastOp.name = "send_data" /\ Len(lastOp.data) = 8) =>
        /\ Len(bus) = 1
        /\ bus[1].addr = slave_address
        /\ Len(bus[1].bytes) = 9
        /\ bus[1].bytes = <<64>> \o lastOp.data
        /\ result = Outcome(lastOp.plan, 1)

\* An 8-byte write that the transport failed.
C5_Witness ==
    /\ lastOp.name = "send_data"
    /\ lastOp.data = <<255, 0, 128, 64, 17, 200, 9, 254>>
    /\ Len(bus) = 1
    /\ result = "NoAcknowledge"

-----------------------------------------------------------------------------
(* C6 *)

-----------------------------------------------------------------------------
(* C7 *)

\* C7: drawing one in-bounds pixel, once or twice in a row, sets its nibble of
\* byte x/2 + y*64 (high for an even x, low for an odd x) to the gray value,
\* leaves the sibling nibble and every other byte as they were, and causes no
\* bus traffic.
C7_PixelPacking ==
    [][ ( /\ lastOp'.name = "draw_iter"
          /\ Len(lastOp'.pixels) \in {1, 2}
          /\ \A i \in 1..Len(lastOp'.pixels) : lastOp'.pixels[i] = lastOp'.pixels[1]
          /\ OnPanel(lastOp'.pixels[1])
          /\ lastOp'.pixels[1].luma \in 0..15 )
        => ( /\ framebuffer' = Packed(framebuffer, lastOp'.pixels[1])
             /\ bus' = <<>> ) ]_vars

\* An odd-x pixel was drawn beside a non-zero even-x sibling, which was kept.
C7_Witness ==
    /\ lastOp.name = "draw_iter"
    /\ lastOp.pixels = <<Px(1, 0, 9)>>
    /\ framebuffer[0] = 15 * 16 + 9

-----------------------------------------------------------------------------
(* C8 *)

\* C8: a draw call applies its in-bounds pixels in order, skips every pixel
\* whose x or y is outside 0..127, and returns Ok.
C8_Clipping ==
    [][ lastOp'.name = "draw_iter"
        => ( /\ framebuffer' = PackedAll(framebuffer, SelectSeq(lastOp'.pixels, OnPanel))
             /\ (\A i \in 1..Len(lastOp'.pixels) : ~OnPanel(lastOp'.pixels[i]))
                    => framebuffer' = framebuffer
             /\ result' = "Ok" ) ]_vars

\* A call drew an out-of-bounds pixel and then an in-bounds one, which was applied.
C8_Witness ==
    /\ lastOp.name = "draw_iter"
    /\ lastOp.pixels = <<Px(128, 0, 15), Px(127, 127, 15)>>
    /\ framebuffer[8191] = 15
    /\ framebuffer[64] = 0
    /\ result = "Ok"

-----------------------------------------------------------------------------
(* C9 *)

\* C9: send_cmd performs one transaction to the controller's address and returns
\* the transport's result unmodified, leaving the controller as it was; and after
\* any calls the address, half-width and height are those of construction.
C9_SendCmdOneTransaction ==
    /\ [](/\ ConfigKept
          /\ ctor.width = 127 => width = 63
          /\ lastOp.name = "send_cmd" =>
                /\ Len(bus) = 1
                /\ bus[1].addr = slave_address
                /\ bus[1].res = Outcome(lastOp.plan, 1)
                /\ result = Outcome(lastOp.plan, 1))
    /\ [][ lastOp'.name = "send_cmd"
           => UNCHANGED <<slave_address, width, height, framebuffer>> ]_vars

\* A send_cmd on a default controller with a painted framebuffer failed.
C9_Witness ==
    /\ lastOp.name = "send_cmd"
    /\ ctor.name = "new"
    /\ width = 63
    /\ framebuffer[0] # 0
    /\ result = "ArbitrationLoss"
    /\ Len(bus) = 1

-----------------------------------------------------------------------------
(* C10 *)

\* C10: a flush sends ColumnAddress{0, half-width}, then RowAddress{0, height},
\* then, whatever the addressing commands returned, the framebuffer in order:
\* the k-th data write (from 0) carries 0x40 and bytes 8k..8k+7, all read inside
\* the framebuffer, each byte once; the framebuffer is unchanged.
C10_FlushStream ==
    /\ [](lastOp.name = "flush" =>
            /\ result # "Panic"
            /\ Len(bus) = 2 + FrameChunks
            /\ bus[1].bytes = <<0, 21, 0, width>>
            /\ bus[2].bytes = <<0, 117, 0, height>>
            /\ \A k \in 0..(FrameChunks - 1) :
                  /\ 8 * k + 7 < FbLen
                  /\ bus[3 + k].addr = slave_address
                  /\ bus[3 + k].bytes =
                        <<64>> \o [i \in 1..8 |-> framebuffer[8 * k + i - 1]])
    /\ [][ lastOp'.name = "flush" => framebuffer' = framebuffer ]_vars

\* A painted framebuffer was flushed although the first addressing command failed.
C10_Witness ==
    /\ lastOp.name = "flush"
    /\ bus[1].res = "NoAcknowledge"
    /\ framebuffer[0] = 15 * 16 + 9
    /\ framebuffer[8191] = 15
    /\ Len(bus) = 2 + FrameChunks
    /\ bus[3].bytes[2] = 15 * 16 + 9
    /\ bus[2 + FrameChunks].bytes[9] = 15

====
